---- MODULE Spec2Model ----
(***************************************************************************)
(* Model of src/src/lambda/receipt_processor.py: the Lambda handler that   *)
(* reads a receipt from S3 through Textract AnalyzeExpense, normalises the *)
(* extracted fields, stores the record in DynamoDB and mails a summary     *)
(* through SES.                                                            *)
(*                                                                         *)
(* Python values are modelled as follows.  A dict is a function whose      *)
(* DOMAIN is the set of keys present.  A list is a sequence.  A string is  *)
(* a string; None is the string NULL.  An expense field is a record with   *)
(* the three sub-structures Type, LabelDetection and ValueDetection, each  *)
(* holding the "Text" of that sub-structure: ABSENT when the field has no  *)
(* such key, NULL when the sub-structure has no Text (or Text is None).    *)
(***************************************************************************)
EXTENDS Integers, Sequences, FiniteSets, TLC

VARIABLES
    pc,        \* position of the invocation in handler
    event,     \* the invocation payload
    bucket,    \* local variable bucket
    key,       \* local variable key
    tx,        \* the response of textract.analyze_expense
    summary,   \* local variable summary
    items,     \* local variable items
    record,    \* local variable record (the item passed to put_item)
    message,   \* vendor, date, total, subject and the two bodies
    calls,     \* the external calls attempted and how each ended, in order
    table,     \* the DynamoDB table: receipt_id -> item
    outcome    \* what the invocation gave: a return value or a raised error

vars == <<pc, event, bucket, key, tx, summary, items, record, message,
          calls, table, outcome>>

----------------------------------------------------------------------------
(* Python values *)

NULL == "<None>"
ABSENT == "<absent>"

EmptyDict == [k \in {} |-> NULL]

\* d.get(k, default)
Get(d, k, default) == IF k \in DOMAIN d THEN d[k] ELSE default

\* d[k] = v
DictSet(d, k, v) == [x \in (DOMAIN d) \cup {k} |-> IF x = k THEN v ELSE d[x]]

\* truth value of a string or None
Truthy(v) == v # NULL /\ v # ""

\* a or b, on strings and None
PyOr(a, b) == IF Truthy(a) THEN a ELSE b

\* field.get(name, {}).get("Text")
SubText(field, name) == IF field[name] = ABSENT THEN NULL ELSE field[name]

\* str(v) as an f-string renders it
Str(v) == IF v = NULL THEN "None" ELSE v

Min(a, b) == IF a < b THEN a ELSE b

----------------------------------------------------------------------------
(* _coalesce *)

_coalesce(value, default) == IF value # NULL THEN value ELSE default

----------------------------------------------------------------------------
(* _parse_summary_fields *)

\* lines 29-33: the label of one summary field, NULL when it has none
SummaryFieldType(field) ==
    IF field.Type # ABSENT /\ Truthy(field.Type)
    THEN field.Type
    ELSE IF field.LabelDetection # ABSENT /\ Truthy(field.LabelDetection)
         THEN field.LabelDetection
         ELSE NULL

\* line 34
FieldValue(field) == SubText(field, "ValueDetection")

\* SummaryStep keeping the first value of a label instead of the last
SummaryStep_FirstWins(out, field) ==
    IF Truthy(SummaryFieldType(field)) /\ SummaryFieldType(field) \notin DOMAIN out
    THEN DictSet(out, SummaryFieldType(field), FieldValue(field))
    ELSE out

\* lines 35-36: one iteration of the loop
SummaryStep(out, field) ==
    IF Truthy(SummaryFieldType(field))
    THEN DictSet(out, SummaryFieldType(field), FieldValue(field))
    ELSE out

RECURSIVE SummaryLoop(_, _, _)
SummaryLoop(fields, i, out) ==
    IF i > Len(fields) THEN out
    ELSE SummaryLoop(fields, i + 1, SummaryStep(out, fields[i]))

_parse_summary_fields(summary_fields) == SummaryLoop(summary_fields, 1, EmptyDict)

----------------------------------------------------------------------------
(* _parse_line_items *)

\* line 46
LineFieldType(field) == PyOr(SubText(field, "Type"), SubText(field, "LabelDetection"))

\* lines 46-49: one iteration of the inner loop
LineFieldStep(item, field) ==
    IF Truthy(LineFieldType(field))
    THEN DictSet(item, LineFieldType(field), FieldValue(field))
    ELSE item

RECURSIVE LineFieldLoop(_, _, _)
LineFieldLoop(fields, i, item) ==
    IF i > Len(fields) THEN item
    ELSE LineFieldLoop(fields, i + 1, LineFieldStep(item, fields[i]))

\* lines 51-57
Normalized(item) ==
    [description |-> Get(item, "ITEM", Get(item, "DESCRIPTION", "")),
     quantity    |-> Get(item, "QUANTITY", ""),
     unit_price  |-> Get(item, "PRICE", Get(item, "UNIT_PRICE", "")),
     total       |-> Get(item, "TOTAL", Get(item, "LINE_TOTAL", "")),
     _raw        |-> item]

\* lines 44-58: one line item
ParseLineItem(li) ==
    Normalized(LineFieldLoop(Get(li, "LineItemExpenseFields", <<>>), 1, EmptyDict))

RECURSIVE LineItemLoop(_, _, _)
LineItemLoop(lis, j, acc) ==
    IF j > Len(lis) THEN acc
    ELSE LineItemLoop(lis, j + 1, Append(acc, ParseLineItem(lis[j])))

RECURSIVE GroupLoop(_, _, _)
GroupLoop(groups, g, acc) ==
    IF g > Len(groups) THEN acc
    ELSE GroupLoop(groups, g + 1,
                   LineItemLoop(Get(groups[g], "LineItems", <<>>), 1, acc))

_parse_line_items(groups) == GroupLoop(groups, 1, <<>>)

----------------------------------------------------------------------------
(* handler, lines 64-72: the bucket and key of the invocation payload *)

\* line 64
IsS3Event(ev) ==
    /\ "Records" \in DOMAIN ev
    /\ Len(ev["Records"]) > 0
    /\ Get(ev["Records"][1], "s3", EmptyDict) # EmptyDict

\* lines 66-67 raise KeyError when a level of the nesting is missing
S3KeysPresent(s3) ==
    /\ "bucket" \in DOMAIN s3
    /\ "name" \in DOMAIN s3["bucket"]
    /\ "object" \in DOMAIN s3
    /\ "key" \in DOMAIN s3["object"]

\* lines 64-72: the error raised, or NULL when bucket and key are bound
TriggerError(ev) ==
    IF IsS3Event(ev)
    THEN IF S3KeysPresent(ev["Records"][1]["s3"]) THEN NULL ELSE "KeyError"
    ELSE IF Truthy(Get(ev, "bucket", NULL)) /\ Truthy(Get(ev, "key", NULL))
         THEN NULL
         ELSE "ValueError"

TriggerBucket(ev) ==
    IF IsS3Event(ev) THEN ev["Records"][1]["s3"]["bucket"]["name"]
    ELSE Get(ev, "bucket", NULL)

TriggerKey(ev) ==
    IF IsS3Event(ev) THEN ev["Records"][1]["s3"]["object"]["key"]
    ELSE Get(ev, "key", NULL)

----------------------------------------------------------------------------
(* handler, lines 83-91: normalisation of the Textract response *)

ExpenseDocs(response) == Get(response, "ExpenseDocuments", <<>>)

ParsedSummary(response) ==
    IF Len(ExpenseDocs(response)) = 0 THEN EmptyDict
    ELSE _parse_summary_fields(Get(ExpenseDocs(response)[1], "SummaryFields", <<>>))

ParsedItems(response) ==
    IF Len(ExpenseDocs(response)) = 0 THEN <<>>
    ELSE _parse_line_items(Get(ExpenseDocs(response)[1], "LineItemGroups", <<>>))

----------------------------------------------------------------------------
(* handler, lines 93-108: the record *)

\* datetime.isoformat() of the second t of a fixed minute
IsoFormat(t) == "2024-01-01T00:00:" \o (IF t < 10 THEN "0" ELSE "") \o ToString(t)

NowIso(t) == IsoFormat(t) \o "Z"

BuildRecord(receipt_id, b, k, now_iso, sm, its, response) ==
    [receipt_id    |-> receipt_id,
     s3_bucket     |-> b,
     s3_key        |-> k,
     inserted_at   |-> now_iso,
     summary       |-> sm,
     line_items    |-> its,
     textract_meta |-> [api |-> "AnalyzeExpense",
                        doc_count |-> Len(ExpenseDocs(response))]]

----------------------------------------------------------------------------
(* handler, lines 113-156 and 164: the notification *)

SummaryGet(sm, k) == Get(sm, k, NULL)

\* a or b or c
PyOr3(a, b, c) == PyOr(PyOr(a, b), c)

\* line 114
Vendor(sm) ==
    _coalesce(PyOr3(SummaryGet(sm, "VENDOR_NAME"), SummaryGet(sm, "RECEIVER_NAME"),
                    SummaryGet(sm, "SUPPLIER_NAME")), "Unknown vendor")

\* line 115
Date(sm) ==
    _coalesce(PyOr3(SummaryGet(sm, "INVOICE_RECEIPT_DATE"), SummaryGet(sm, "INVOICE_DATE"),
                    SummaryGet(sm, "RECEIPT_DATE")), "Unknown date")

\* line 116
Total(sm) ==
    _coalesce(PyOr3(SummaryGet(sm, "TOTAL"), SummaryGet(sm, "AMOUNT_DUE"),
                    SummaryGet(sm, "INVOICE_TOTAL")), "Unknown total")

\* sep.join(strs)
RECURSIVE Join(_, _)
Join(strs, sep) ==
    IF Len(strs) = 0 THEN ""
    ELSE IF Len(strs) = 1 THEN strs[1]
    ELSE strs[1] \o sep \o Join(Tail(strs), sep)

TextLimit == 10
HtmlLimit == 50

\* items[:n]
Slice(its, n) == SubSeq(its, 1, Min(Len(its), n))

\* TextItems without the slice
TextItems_Unlimited(its) == its

\* line 120
TextItems(its) == Slice(its, TextLimit)

\* line 141
HtmlItems(its) == Slice(its, HtmlLimit)

\* line 119
TextLine(i) ==
    "- " \o Str(i.description) \o "  qty=" \o Str(i.quantity)
         \o "  price=" \o Str(i.unit_price) \o "  total=" \o Str(i.total)

\* line 140
HtmlRow(i) ==
    "<tr><td>" \o Str(i.description) \o "</td><td>" \o Str(i.quantity)
        \o "</td><td>" \o Str(i.unit_price) \o "</td><td>" \o Str(i.total)
        \o "</td></tr>"

NoItemsText == "(no line items detected)"
NoItemsHtml == "<tr><td colspan='4'>(no line items detected)</td></tr>"

\* a or b on two strings
StrOr(a, b) == IF a # "" THEN a ELSE b

\* lines 118-121
LinesPreview(its) ==
    StrOr(Join([n \in 1..Len(TextItems(its)) |-> TextLine(TextItems(its)[n])], "\n"),
          NoItemsText)

\* lines 139-142
HtmlItemRows(its) ==
    StrOr(Join([n \in 1..Len(HtmlItems(its)) |-> HtmlRow(HtmlItems(its)[n])], ""),
          NoItemsHtml)

\* lines 123-137
TextBody(vendor, date, total, lines_preview, receipt_id, b, k, now_iso) ==
    "\nYour receipt has been processed.\n\nVendor: " \o Str(vendor)
    \o "\nDate:   " \o Str(date) \o "\nTotal:  " \o Str(total)
    \o "\n\nTop line items:\n" \o lines_preview
    \o "\n\nMetadata:\n- Receipt ID: " \o receipt_id
    \o "\n- S3: s3://" \o Str(b) \o "/" \o Str(k)
    \o "\n- Inserted at: " \o now_iso \o "\n"

\* lines 144-156
HtmlBody(vendor, date, total, html_items, receipt_id, b, k, now_iso) ==
    "<html><body>\n<h2>Receipt processed</h2>\n<p><strong>Vendor</strong>: "
    \o Str(vendor) \o "<br/>\n<strong>Date</strong>: " \o Str(date)
    \o "<br/>\n<strong>Total</strong>: " \o Str(total) \o "</p>\n"
    \o "<table border=\"1\" cellspacing=\"0\" cellpadding=\"6\">\n"
    \o "<thead><tr><th>Description</th><th>Qty</th><th>Unit Price</th>"
    \o "<th>Line Total</th></tr></thead>\n<tbody>" \o html_items
    \o "</tbody>\n</table>\n<p>Receipt ID: " \o receipt_id
    \o "<br/>\nS3: s3://" \o Str(b) \o "/" \o Str(k)
    \o "<br/>\nInserted at: " \o now_iso \o "</p>\n</body></html>"

\* line 164
Subject(vendor, date, total) ==
    "Receipt processed: " \o Str(vendor) \o " on " \o Str(date)
    \o " (Total " \o Str(total) \o ")"

\* lines 113-156, 164: everything the send is given
Compose(sm, its, receipt_id, b, k, now_iso) ==
    [vendor        |-> Vendor(sm),
     date          |-> Date(sm),
     total         |-> Total(sm),
     lines_preview |-> LinesPreview(its),
     html_items    |-> HtmlItemRows(its),
     subject       |-> Subject(Vendor(sm), Date(sm), Total(sm)),
     text_body     |-> TextBody(Vendor(sm), Date(sm), Total(sm), LinesPreview(its),
                                receipt_id, b, k, now_iso),
     html_body     |-> HtmlBody(Vendor(sm), Date(sm), Total(sm), HtmlItemRows(its),
                                receipt_id, b, k, now_iso)]

\* Result counting the summary fields instead of the line items
Result_CountsSummary(receipt_id, sm, its) ==
    [status |-> "ok", receipt_id |-> receipt_id, summary |-> sm,
     line_items_count |-> Cardinality(DOMAIN sm)]

\* line 175
Result(receipt_id, sm, its) ==
    [status |-> "ok", receipt_id |-> receipt_id, summary |-> sm,
     line_items_count |-> Len(its)]

----------------------------------------------------------------------------
(* Inputs: invocation payloads *)

\* {"bucket": {"name": n}, "object": {"key": k}}; ABSENT leaves the inner key out
S3Entity(n, k) ==
    [bucket |-> IF n = ABSENT THEN EmptyDict ELSE [name |-> n],
     object |-> IF k = ABSENT THEN EmptyDict ELSE [key |-> k]]

\* one element of event["Records"]
S3Record(s3) == [s3 |-> s3]

\* the payload with the given keys; ABSENT leaves bucket or key out
Payload(hasRecords, records, b, k) ==
    [x \in (IF hasRecords THEN {"Records"} ELSE {})
           \cup (IF b = ABSENT THEN {} ELSE {"bucket"})
           \cup (IF k = ABSENT THEN {} ELSE {"key"}) |->
        CASE x = "Records" -> records
          [] x = "bucket"  -> b
          [] x = "key"     -> k]

TopLevelNames == {ABSENT, NULL, "", "manual"}
S3Names == {ABSENT, "", "uploads"}

RecordLists ==
    {<<>>, <<EmptyDict>>, <<S3Record(EmptyDict)>>}
    \cup {<<S3Record(S3Entity(n, k))>> : n \in S3Names, k \in S3Names}
    \cup {<<S3Record(S3Entity("uploads", "a.png")), S3Record(S3Entity("other", "b.png"))>>}

Events ==
    {Payload(FALSE, <<>>, b, k) : b \in TopLevelNames, k \in TopLevelNames}
    \cup {Payload(TRUE, rs, ABSENT, ABSENT) : rs \in RecordLists}
    \cup {Payload(TRUE, rs, "manual", "m.png") : rs \in RecordLists}

----------------------------------------------------------------------------
(* Inputs: Textract responses *)

Field(t, l, v) == [Type |-> t, LabelDetection |-> l, ValueDetection |-> v]

LineItem(fields) == [LineItemExpenseFields |-> fields]

Group(lis) == [LineItems |-> lis]

Doc(summary_fields, groups) == [SummaryFields |-> summary_fields, LineItemGroups |-> groups]

Response(docs) == [ExpenseDocuments |-> docs]

\* sequences over S of length at most n
SeqsUpTo(S, n) == UNION {[1..m -> S] : m \in 0..n}

\* the responses the handler is exercised with
HandlerSummaries ==
    {<<>>,
     <<Field("TOTAL", ABSENT, "42.00")>>,
     <<Field("VENDOR_NAME", ABSENT, "ACME"), Field("TOTAL", ABSENT, "42.00")>>,
     <<Field("TOTAL", ABSENT, "1.00"), Field(ABSENT, "TOTAL", "2.00")>>,
     <<Field("SUPPLIER_NAME", ABSENT, ""), Field("INVOICE_DATE", ABSENT, ABSENT)>>}

HandlerGroups ==
    {<<>>,
     <<Group(<<>>)>>,
     <<Group(<<LineItem(<<Field("ITEM", ABSENT, "Tea"), Field("PRICE", ABSENT, "3.50")>>)>>)>>,
     <<Group(<<LineItem(<<Field("ITEM", ABSENT, ABSENT)>>)>>),
       Group(<<LineItem(<<Field(ABSENT, "DESCRIPTION", "Milk")>>), LineItem(<<>>)>>)>>}

HandlerDocs ==
    {EmptyDict} \cup {Doc(sf, gs) : sf \in HandlerSummaries, gs \in HandlerGroups}

HandlerResponses ==
    {EmptyDict, Response(<<>>)}
    \cup {Response(<<d>>) : d \in HandlerDocs}
    \cup {Response(<<Doc(<<>>, <<>>), d>>) : d \in HandlerDocs}

NumUuids == 2
MaxClock == 0

\* the values uuid.uuid4() may give
Uuids == {"uuid-" \o ToString(n) : n \in 1..NumUuids}

\* the seconds datetime.utcnow() may give
Clock == 0..MaxClock

\* the exceptions a boto3 call may raise
ServiceErrors == {"ClientError", "EndpointConnectionError"}

----------------------------------------------------------------------------
(* The invocation *)

\* one external call and how it ended: "ok" or the exception raised
Call(api, result) == [api |-> api, result |-> result]

NoOutcome == [kind |-> "none"]
Raised(e) == [kind |-> "raise", error |-> e]
Returned(v) == [kind |-> "return", value |-> v]

Init ==
    /\ pc = "start"
    /\ event = EmptyDict
    /\ bucket = NULL
    /\ key = NULL
    /\ tx = EmptyDict
    /\ summary = EmptyDict
    /\ items = <<>>
    /\ record = EmptyDict
    /\ message = EmptyDict
    /\ calls = <<>>
    /\ table = EmptyDict
    /\ outcome = NoOutcome

\* lines 61-72, the payload yields bucket and key
Invoke ==
    /\ pc = "start"
    /\ \E ev \in Events :
          /\ TriggerError(ev) = NULL
          /\ event' = ev
          /\ bucket' = TriggerBucket(ev)
          /\ key' = TriggerKey(ev)
    /\ pc' = "extract"
    /\ UNCHANGED <<tx, summary, items, record, message, calls, table, outcome>>

\* lines 61-72, the payload is rejected
InvokeRejected ==
    /\ pc = "start"
    /\ \E ev \in Events :
          /\ TriggerError(ev) # NULL
          /\ event' = ev
          /\ outcome' = Raised(TriggerError(ev))
    /\ pc' = "done"
    /\ UNCHANGED <<bucket, key, tx, summary, items, record, message, calls, table>>

\* lines 75-78, analyze_expense returns
AnalyzeExpenseOk ==
    /\ pc = "extract"
    /\ calls' = Append(calls, Call("analyze_expense", "ok"))
    /\ \E response \in HandlerResponses : tx' = response
    /\ pc' = "normalize"
    /\ UNCHANGED <<event, bucket, key, summary, items, record, message, table, outcome>>

\* Normalize indexing expense_docs[0] without the emptiness test of line 84
Normalize_RejectsEmpty ==
    /\ pc = "normalize"
    /\ IF Len(ExpenseDocs(tx)) = 0
       THEN /\ outcome' = Raised("IndexError")
            /\ pc' = "done"
            /\ UNCHANGED <<summary, items, record>>
       ELSE /\ summary' = ParsedSummary(tx)
            /\ items' = ParsedItems(tx)
            /\ \E id \in Uuids, t \in Clock :
                  record' = BuildRecord(id, bucket, key, NowIso(t), ParsedSummary(tx),
                                        ParsedItems(tx), tx)
            /\ pc' = "persist"
            /\ UNCHANGED outcome
    /\ UNCHANGED <<event, bucket, key, tx, message, calls, table>>

\* lines 83-108: normalise the response and build the record
Normalize ==
    /\ pc = "normalize"
    /\ summary' = ParsedSummary(tx)
    /\ items' = ParsedItems(tx)
    /\ \E id \in Uuids, t \in Clock :
          record' = BuildRecord(id, bucket, key, NowIso(t), ParsedSummary(tx),
                                ParsedItems(tx), tx)
    /\ pc' = "persist"
    /\ UNCHANGED <<event, bucket, key, tx, message, calls, table, outcome>>

\* AnalyzeExpenseFails with the exception logged and not re-raised
AnalyzeExpenseFails_Ignored ==
    /\ pc = "extract"
    /\ \E e \in ServiceErrors, id \in Uuids, t \in Clock :
          /\ calls' = Append(calls, Call("analyze_expense", e))
          /\ record' = BuildRecord(id, bucket, key, NowIso(t), EmptyDict, <<>>, EmptyDict)
    /\ pc' = "persist"
    /\ UNCHANGED <<event, bucket, key, tx, summary, items, message, table, outcome>>

\* lines 75-81, analyze_expense raises
AnalyzeExpenseFails ==
    /\ pc = "extract"
    /\ \E e \in ServiceErrors :
          /\ calls' = Append(calls, Call("analyze_expense", e))
          /\ outcome' = Raised(e)
    /\ pc' = "done"
    /\ UNCHANGED <<event, bucket, key, tx, summary, items, record, message, table>>

\* line 111, put_item returns
PutItemOk ==
    /\ pc = "persist"
    /\ calls' = Append(calls, Call("put_item", "ok"))
    /\ table' = DictSet(table, record.receipt_id, record)
    /\ pc' = "notify"
    /\ UNCHANGED <<event, bucket, key, tx, summary, items, record, message, outcome>>

\* PutItemFails with the exception caught as the one of send_email is
PutItemFails_Swallowed ==
    /\ pc = "persist"
    /\ \E e \in ServiceErrors : calls' = Append(calls, Call("put_item", e))
    /\ pc' = "notify"
    /\ UNCHANGED <<event, bucket, key, tx, summary, items, record, message, table, outcome>>

\* line 111, put_item raises
PutItemFails ==
    /\ pc = "persist"
    /\ \E e \in ServiceErrors :
          /\ calls' = Append(calls, Call("put_item", e))
          /\ outcome' = Raised(e)
    /\ pc' = "done"
    /\ UNCHANGED <<event, bucket, key, tx, summary, items, record, message, table>>

\* lines 113-156
Composed ==
    Compose(summary, items, record.receipt_id, bucket, key, record.inserted_at)

\* lines 113-175, send_email returns
SendEmailOk ==
    /\ pc = "notify"
    /\ message' = Composed
    /\ calls' = Append(calls, Call("send_email", "ok"))
    /\ outcome' = Returned(Result(record.receipt_id, summary, items))
    /\ pc' = "done"
    /\ UNCHANGED <<event, bucket, key, tx, summary, items, record, table>>

\* lines 113-175, send_email raises ClientError, which line 172 catches
SendEmailClientError ==
    /\ pc = "notify"
    /\ message' = Composed
    /\ calls' = Append(calls, Call("send_email", "ClientError"))
    /\ outcome' = Returned(Result(record.receipt_id, summary, items))
    /\ pc' = "done"
    /\ UNCHANGED <<event, bucket, key, tx, summary, items, record, table>>

\* lines 113-170, send_email raises an exception that is no ClientError
SendEmailOtherError ==
    /\ pc = "notify"
    /\ message' = Composed
    /\ calls' = Append(calls, Call("send_email", "EndpointConnectionError"))
    /\ outcome' = Raised("EndpointConnectionError")
    /\ pc' = "done"
    /\ UNCHANGED <<event, bucket, key, tx, summary, items, record, table>>

Next ==
    \/ Invoke
    \/ InvokeRejected
    \/ AnalyzeExpenseOk
    \/ AnalyzeExpenseFails
    \/ Normalize
    \/ PutItemOk
    \/ PutItemFails
    \/ SendEmailOk
    \/ SendEmailClientError
    \/ SendEmailOtherError

Spec == Init /\ [][Next]_vars

----------------------------------------------------------------------------
(* The invocation from the return of analyze_expense on, over wider        *)
(* families of Textract responses than the whole invocation is run with.   *)

NextPipeline ==
    \/ Normalize
    \/ PutItemOk
    \/ PutItemFails
    \/ SendEmailOk
    \/ SendEmailClientError
    \/ SendEmailOtherError

\* the state after analyze_expense returned response for s3://manual/m.png
AfterExtraction(response) ==
    /\ pc = "normalize"
    /\ event = Payload(FALSE, <<>>, "manual", "m.png")
    /\ bucket = "manual"
    /\ key = "m.png"
    /\ tx = response
    /\ summary = EmptyDict
    /\ items = <<>>
    /\ record = EmptyDict
    /\ message = EmptyDict
    /\ calls = <<Call("analyze_expense", "ok")>>
    /\ table = EmptyDict
    /\ outcome = NoOutcome

MaxSummaryFields == 2
MaxItemFields == 2
MaxGroupItems == 26

\* summary fields with every way of carrying, or not carrying, a label
SummaryEntries ==
    {Field(t, l, v) : t \in {ABSENT, "", "TOTAL"},
                      l \in {ABSENT, "TAX", "TOTAL"},
                      v \in {"1.00", "2.00"}}
    \cup {Field("TOTAL", "", ABSENT), Field("", "TAX", ABSENT)}

\* the three keys of one notification field, each missing, None, empty or set
CandidateKeys ==
    {<<"VENDOR_NAME", "RECEIVER_NAME", "SUPPLIER_NAME">>,
     <<"INVOICE_RECEIPT_DATE", "INVOICE_DATE", "RECEIPT_DATE">>,
     <<"TOTAL", "AMOUNT_DUE", "INVOICE_TOTAL">>}

CandidateValues(n) == {"<missing>", ABSENT, "", "value-" \o ToString(n)}

RECURSIVE CandidateFields(_, _, _, _)
CandidateFields(keys, vals, n, acc) ==
    IF n > Len(keys) THEN acc
    ELSE CandidateFields(keys, vals, n + 1,
            IF vals[n] = "<missing>" THEN acc
            ELSE Append(acc, Field(keys[n], ABSENT, vals[n])))

CandidateSummaries ==
    {CandidateFields(ks, <<a, b, c>>, 1, <<>>) :
        ks \in CandidateKeys, a \in CandidateValues(1), b \in CandidateValues(2),
        c \in CandidateValues(3)}

SummaryResponses ==
    {Response(<<Doc(sf, <<>>)>>) :
        sf \in SeqsUpTo(SummaryEntries, MaxSummaryFields) \cup CandidateSummaries}

\* line-item fields over the labels _parse_line_items looks for
LineItemLabels ==
    {"ITEM", "DESCRIPTION", "QUANTITY", "PRICE", "UNIT_PRICE", "TOTAL", "LINE_TOTAL"}

LineItemEntries ==
    {Field(t, ABSENT, v) : t \in LineItemLabels, v \in {ABSENT, "", "a", "b"}}
    \cup {Field(t, "ITEM", v) : t \in {ABSENT, ""}, v \in {ABSENT, "", "a", "b"}}
    \cup {Field(ABSENT, ABSENT, "a")}

LineItemResponses ==
    {Response(<<Doc(<<>>, <<Group(<<LineItem(fs)>>)>>)>>) :
        fs \in SeqsUpTo(LineItemEntries, MaxItemFields)}

\* the j-th line item of group g of a long receipt
NumberedLineItem(g, j) ==
    LineItem(<<Field("ITEM", ABSENT, "item-" \o ToString(g) \o "-" \o ToString(j)),
               Field("QUANTITY", ABSENT, ToString(j))>>)

NumberedGroup(g, n) == Group([j \in 1..n |-> NumberedLineItem(g, j)])

VolumeResponses ==
    {Response(<<Doc(<<>>, <<NumberedGroup(1, n), NumberedGroup(2, m)>>)>>) :
        n \in 0..MaxGroupItems, m \in 0..MaxGroupItems}
    \cup {Response(<<Doc(<<>>, <<EmptyDict, NumberedGroup(2, m)>>)>>) : m \in 0..1}

InitSummary == \E response \in SummaryResponses : AfterExtraction(response)
InitLineItems == \E response \in LineItemResponses : AfterExtraction(response)
InitVolume == \E response \in VolumeResponses : AfterExtraction(response)

SpecSummary == InitSummary /\ [][NextPipeline]_vars
SpecLineItems == InitLineItems /\ [][NextPipeline]_vars
SpecVolume == InitVolume /\ [][NextPipeline]_vars

----------------------------------------------------------------------------
(* Properties of the invocation *)

\* the positions in calls of the calls to api
CallsOf(api) == {n \in 1..Len(calls) : calls[n].api = api}

Attempted(api) == CallsOf(api) # {}

Failed(api) == \E n \in CallsOf(api) : calls[n].result # "ok"

Succeeded(api) == \E n \in CallsOf(api) : calls[n].result = "ok"

\* C1: when table.put_item fails, the invocation raises, returns no result, and
\* ses.send_email is never attempted.
C1_PersistenceFailureAborts ==
    Failed("put_item") =>
        /\ outcome.kind = "raise"
        /\ ~Attempted("send_email")

C1_Witness ==
    /\ pc = "done"
    /\ Succeeded("analyze_expense")
    /\ Failed("put_item")

\* the first record's s3 sub-structure gives a non-empty bucket and a non-empty key
YieldsFromS3(ev) ==
    /\ "Records" \in DOMAIN ev
    /\ Len(ev["Records"]) > 0
    /\ "s3" \in DOMAIN ev["Records"][1]
    /\ LET s3 == ev["Records"][1]["s3"]
       IN /\ "bucket" \in DOMAIN s3
          /\ "name" \in DOMAIN s3["bucket"]
          /\ s3["bucket"]["name"] \notin {NULL, ""}
          /\ "object" \in DOMAIN s3
          /\ "key" \in DOMAIN s3["object"]
          /\ s3["object"]["key"] \notin {NULL, ""}

\* the top-level bucket and key are both non-empty
YieldsFromTopLevel(ev) ==
    /\ "bucket" \in DOMAIN ev
    /\ ev["bucket"] \notin {NULL, ""}
    /\ "key" \in DOMAIN ev
    /\ ev["key"] \notin {NULL, ""}

\* C2: when extraction and persistence succeeded and ses.send_email fails, for any
\* kind of failure, the invocation returns status "ok" with the receipt_id of the
\* record that was persisted.
C2_NotificationFailureSuppressed ==
    (/\ YieldsFromS3(event) \/ YieldsFromTopLevel(event)
     /\ Succeeded("analyze_expense")
     /\ Succeeded("put_item")
     /\ Failed("send_email")) =>
        /\ outcome.kind = "return"
        /\ outcome.value.status = "ok"
        /\ outcome.value.receipt_id \in DOMAIN table
        /\ outcome.value.receipt_id = record.receipt_id

\* C3: when textract.analyze_expense fails, the invocation raises and neither
\* put_item nor send_email is ever called.
C3_ExtractionFailureAborts ==
    Failed("analyze_expense") =>
        /\ outcome.kind = "raise"
        /\ ~Attempted("put_item")
        /\ ~Attempted("send_email")
        /\ table = EmptyDict

C3_Witness ==
    /\ pc = "done"
    /\ Failed("analyze_expense")

\* C4: a payload from which neither shape yields a non-empty bucket and key makes
\* the invocation raise before any external call, and analyze_expense is never
\* called with a missing or empty bucket or key.
C4_InvalidInvocationRejected ==
    pc # "start" =>
        /\ (~YieldsFromS3(event) /\ ~YieldsFromTopLevel(event)) =>
              (calls = <<>> /\ (pc = "done" => outcome.kind = "raise"))
        /\ Attempted("analyze_expense") =>
              (bucket \notin {NULL, ""} /\ key \notin {NULL, ""})

\* C5: a response with zero documents, the external calls succeeding, gives a
\* persisted record with an empty summary, no line items and doc_count 0, and the
\* result status "ok" with an empty summary and line_items_count 0.
C5_ZeroDocumentsSucceeds ==
    (Succeeded("analyze_expense") /\ Len(ExpenseDocs(tx)) = 0) =>
        /\ outcome.kind = "raise" => (Failed("put_item") \/ Failed("send_email"))
        /\ Succeeded("put_item") =>
              /\ DOMAIN table = {record.receipt_id}
              /\ table[record.receipt_id].summary = EmptyDict
              /\ table[record.receipt_id].line_items = <<>>
              /\ table[record.receipt_id].textract_meta.doc_count = 0
        /\ (Succeeded("put_item") /\ Succeeded("send_email")) =>
              outcome = Returned([status |-> "ok", receipt_id |-> record.receipt_id,
                                  summary |-> EmptyDict, line_items_count |-> 0])

C5_Witness ==
    /\ pc = "done"
    /\ "ExpenseDocuments" \in DOMAIN tx
    /\ Len(ExpenseDocs(tx)) = 0
    /\ Succeeded("put_item")
    /\ Succeeded("send_email")

\* in every state: at most one write, and a returned result describes the one record
C6_WrittenOnce ==
    /\ Cardinality(CallsOf("put_item")) <= 1
    /\ outcome.kind = "return" =>
          /\ Cardinality(CallsOf("put_item")) = 1
          /\ Succeeded("put_item")
          /\ DOMAIN table = {outcome.value.receipt_id}
          /\ LET written == table[outcome.value.receipt_id]
             IN /\ written.receipt_id = outcome.value.receipt_id
                /\ written.summary = outcome.value.summary
                /\ Len(written.line_items) = outcome.value.line_items_count

\* in every step: an item of the table stays as it was written
C6_Immutable ==
    \A id \in DOMAIN table : id \in DOMAIN table' /\ table'[id] = table[id]

\* C6: an invocation issues at most one put_item, a returning one exactly one; the
\* written record's receipt_id, summary and number of line items are those of the
\* result, and the record is never modified, re-written or deleted afterwards.
C6_RecordWrittenExactlyOnce == [](C6_WrittenOnce) /\ [][C6_Immutable]_vars

C6_Witness ==
    /\ pc = "done"
    /\ outcome.kind = "return"
    /\ outcome.value.line_items_count = 3
    /\ DOMAIN outcome.value.summary # {}
    /\ Failed("send_email")

----------------------------------------------------------------------------
(* Properties of normalisation and rendering *)

\* lines 83-108 have run
Normalised == pc \in {"persist", "notify"} \/ (pc = "done" /\ Attempted("put_item"))

\* lines 113-156 have run
Rendered == Attempted("send_email")

\* the first of the candidate labels that the raw mapping gives a value for
RECURSIVE FirstValue(_, _, _)
FirstValue(raw, candidates, n) ==
    IF n > Len(candidates) THEN ""
    ELSE IF candidates[n] \in DOMAIN raw /\ raw[candidates[n]] # NULL
         THEN raw[candidates[n]]
         ELSE FirstValue(raw, candidates, n + 1)

\* C7: each normalized field of a line item is a string got by synonym fallback
\* over the raw mapping, the empty string when no candidate yields a value (also
\* when a candidate is present with a null value), and never null.
C7_LineItemFieldsAreStrings ==
    Normalised =>
        \A n \in 1..Len(items) :
            LET i == items[n]
            IN /\ i.description # NULL /\ i.quantity # NULL
               /\ i.unit_price # NULL /\ i.total # NULL
               /\ i.description = FirstValue(i._raw, <<"ITEM", "DESCRIPTION">>, 1)
               /\ i.quantity = FirstValue(i._raw, <<"QUANTITY">>, 1)
               /\ i.unit_price = FirstValue(i._raw, <<"PRICE", "UNIT_PRICE">>, 1)
               /\ i.total = FirstValue(i._raw, <<"TOTAL", "LINE_TOTAL">>, 1)

\* the value of the first candidate key holding a non-empty value, else the default
RECURSIVE FirstNonEmpty(_, _, _, _)
FirstNonEmpty(map, keys, n, default) ==
    IF n > Len(keys) THEN default
    ELSE IF keys[n] \in DOMAIN map /\ map[keys[n]] \notin {NULL, ""}
         THEN map[keys[n]]
         ELSE FirstNonEmpty(map, keys, n + 1, default)

\* C8: vendor, date and total of the notification are each the value of the
\* highest-priority candidate key holding a non-empty value, the literal
\* "Unknown ..." when there is none, and never empty or null.
C8_NotificationFieldsResolved ==
    Rendered =>
        /\ message.vendor = FirstNonEmpty(summary,
              <<"VENDOR_NAME", "RECEIVER_NAME", "SUPPLIER_NAME">>, 1, "Unknown vendor")
        /\ message.date = FirstNonEmpty(summary,
              <<"INVOICE_RECEIPT_DATE", "INVOICE_DATE", "RECEIPT_DATE">>, 1, "Unknown date")
        /\ message.total = FirstNonEmpty(summary,
              <<"TOTAL", "AMOUNT_DUE", "INVOICE_TOTAL">>, 1, "Unknown total")
        /\ {message.vendor, message.date, message.total} \cap {NULL, ""} = {}

\* the summary fields of the first document of the response
SummaryInput == Get(ExpenseDocs(tx)[1], "SummaryFields", <<>>)

\* the label of an entry: its declared type if non-empty, else its label detection
\* if non-empty, else none
ResolvedLabel(e) ==
    IF e.Type \notin {ABSENT, NULL, ""} THEN e.Type
    ELSE IF e.LabelDetection \notin {ABSENT, NULL, ""} THEN e.LabelDetection
    ELSE NULL

\* the detected value of an entry, null when it has none
DetectedValue(e) == IF e.ValueDetection = ABSENT THEN NULL ELSE e.ValueDetection

\* the position of the last entry that resolves to label
LastWith(label) ==
    CHOOSE n \in 1..Len(SummaryInput) :
        /\ ResolvedLabel(SummaryInput[n]) = label
        /\ \A m \in (n + 1)..Len(SummaryInput) : ResolvedLabel(SummaryInput[m]) # label

\* C9: the keys of the summary are exactly the labels resolved from the entries,
\* and each key maps to the detected value of the last entry resolving to it.
C9_SummaryLastEntryWins ==
    Normalised =>
        /\ DOMAIN summary =
              {ResolvedLabel(SummaryInput[n]) : n \in 1..Len(SummaryInput)} \ {NULL}
        /\ \A label \in DOMAIN summary :
              summary[label] = DetectedValue(SummaryInput[LastWith(label)])

C9_Witness ==
    /\ Rendered
    /\ Len(SummaryInput) = 2
    /\ SummaryInput[1].Type = "TOTAL"
    /\ SummaryInput[2].Type = ""
    /\ SummaryInput[2].LabelDetection = "TOTAL"
    /\ SummaryInput[1].ValueDetection = "1.00"
    /\ SummaryInput[2].ValueDetection = "2.00"

\* the line-item groups of the first document of the response
GroupsInput == Get(ExpenseDocs(tx)[1], "LineItemGroups", <<>>)

RawLineItems(g) == Get(GroupsInput[g], "LineItems", <<>>)

RECURSIVE CountFrom(_)
CountFrom(g) == IF g > Len(GroupsInput) THEN 0 ELSE Len(RawLineItems(g)) + CountFrom(g + 1)

\* the n-th line item encountered, counting from group g
RECURSIVE Encountered(_, _)
Encountered(g, n) ==
    IF n <= Len(RawLineItems(g)) THEN RawLineItems(g)[n]
    ELSE Encountered(g + 1, n - Len(RawLineItems(g)))

ExpectedTextLines(n) == [m \in 1..n |-> TextLine(ParseLineItem(Encountered(1, m)))]

ExpectedHtmlRows(n) == [m \in 1..n |-> HtmlRow(ParseLineItem(Encountered(1, m)))]

\* C10: the text body previews exactly the first min(n, 10) items and the HTML
\* table holds exactly the first min(n, 50), in the order encountered across and
\* within groups; with no items both bodies hold "(no line items detected)".
C10_PreviewLimits ==
    Rendered =>
        LET n == CountFrom(1)
            preview == IF n = 0 THEN "(no line items detected)"
                       ELSE Join(ExpectedTextLines(Min(n, 10)), "\n")
            rows == IF n = 0 THEN "<tr><td colspan='4'>(no line items detected)</td></tr>"
                    ELSE Join(ExpectedHtmlRows(Min(n, 50)), "")
        IN /\ Len(items) = n
           /\ message.lines_preview = preview
           /\ message.html_items = rows
           /\ message.text_body =
                 TextBody(message.vendor, message.date, message.total, preview,
                          record.receipt_id, bucket, key, record.inserted_at)
           /\ message.html_body =
                 HtmlBody(message.vendor, message.date, message.total, rows,
                          record.receipt_id, bucket, key, record.inserted_at)

C10_Witness ==
    /\ Rendered
    /\ Len(items) > 50
    /\ Len(RawLineItems(1)) > 10
    /\ Len(RawLineItems(2)) > 10

====
